---- MODULE Spec2Model ----
(***************************************************************************)
(* Slot-machine game: the session ledger (game/models.py) and the request  *)
(* handlers with the roll "cheat" policy (game/views.py).                  *)
(*                                                                         *)
(* The database is the shared state.  Every request handler runs on a      *)
(* worker, reads a private in-memory copy of the session row, changes the  *)
(* copy and writes the whole row back with save().  One step of the model  *)
(* is one database operation together with the local computation that      *)
(* follows it, so handlers of different workers interleave between their   *)
(* database operations, as they do in a multi-threaded server: the views   *)
(* take no lock and open no transaction.                                   *)
(***************************************************************************)
EXTENDS Integers, Sequences, FiniteSets, TLC

VARIABLES
    db,        \* GameSession table: session id -> row
    rolls,     \* GameRoll table: session id -> its rows in creation order
    pc,        \* per worker: where its request handler stands
    loc,       \* per worker: the handler's local variables
    resp,      \* the response sent by the last step, NoResp if it sent none
    wins,      \* number of initially winning draws so far (bounded)
    overlaps,  \* number of requests started while another was in flight
    faults,    \* number of storage faults injected so far
    probe      \* harness of the pure helper functions

vars == <<db, rolls, pc, loc, resp, wins, overlaps, faults, probe>>

(***************************************************************************)
(* Bounds of the model.                                                    *)
(***************************************************************************)
MaxSessions == 2
NumWorkers == 2
MaxRolls == 2
MaxEvents == 2
MaxRollsAndEvents == 3
DeepMaxRolls == 11
DeepMaxEvents == 1
MaxProbeCredits == 65

SessionIds == 1..MaxSessions
Min(S) == CHOOSE x \in S : \A y \in S : x <= y
Workers == 1..NumWorkers

(***************************************************************************)
(* Symbol configuration (views.py SYMBOLS, SYMBOL_NAMES).                  *)
(***************************************************************************)
SYMBOL_NAMES == <<"cherry", "lemon", "orange", "watermelon">>

SYMBOLS ==
    [n \in {"cherry", "lemon", "orange", "watermelon"} |->
        CASE n = "cherry"     -> [letter |-> "C", reward |-> 10]
          [] n = "lemon"      -> [letter |-> "L", reward |-> 20]
          [] n = "orange"     -> [letter |-> "O", reward |-> 30]
          [] n = "watermelon" -> [letter |-> "W", reward |-> 40]]

(***************************************************************************)
(* The random source.  A stream is the sequence of raw values the source   *)
(* will hand out next; every helper returns the rest of the stream with    *)
(* its result.  random.choice(seq) takes one raw value and indexes seq     *)
(* with it; random.random() takes one raw value, read in hundredths.       *)
(***************************************************************************)
random_choice(seq, rnd) ==
    [value |-> seq[(Head(rnd) % Len(seq)) + 1], rnd |-> Tail(rnd)]

random_random(rnd) ==
    [value |-> Head(rnd), rnd |-> Tail(rnd)]

\* [s for s in seq if s != x], order kept
RECURSIVE Without(_, _)
Without(seq, x) ==
    IF seq = <<>> THEN <<>>
    ELSE IF Head(seq) = x THEN Without(Tail(seq), x)
         ELSE <<Head(seq)>> \o Without(Tail(seq), x)

generate_roll(rnd) ==
    LET a == random_choice(SYMBOL_NAMES, rnd)
        b == random_choice(SYMBOL_NAMES, a.rnd)
        c == random_choice(SYMBOL_NAMES, b.rnd)
    IN  [symbols |-> <<a.value, b.value, c.value>>, rnd |-> c.rnd]

check_winning_combination(symbols) ==
    Cardinality({symbols[i] : i \in 1..Len(symbols)}) = 1

LosingRollAllChoices(first) == SYMBOL_NAMES

LosingRollAvailable(first) == Without(SYMBOL_NAMES, first)

generate_losing_roll(rnd) ==
    LET g == generate_roll(rnd)
    IN  IF Cardinality({g.symbols[i] : i \in 1..3}) = 1
        THEN LET d == random_choice(LosingRollAvailable(g.symbols[1]), g.rnd)
             IN  [symbols |-> [g.symbols EXCEPT ![3] = d.value], rnd |-> d.rnd]
        ELSE g

CheatCheckStrict(current_credits, potential_win_credits, rnd) ==
    LET future_credits == current_credits + potential_win_credits
    IN  IF future_credits < 40
        THEN [value |-> FALSE, rnd |-> rnd]
        ELSE IF 40 < future_credits /\ future_credits < 60
        THEN LET r == random_random(rnd)
             IN  [value |-> r.value < 30, rnd |-> r.rnd]
        ELSE LET r == random_random(rnd)
             IN  [value |-> r.value < 60, rnd |-> r.rnd]

CheatCheckDrawsFirst(current_credits, potential_win_credits, rnd) ==
    LET future_credits == current_credits + potential_win_credits
        r == random_random(rnd)
    IN  IF future_credits < 40
        THEN [value |-> FALSE, rnd |-> r.rnd]
        ELSE IF 40 <= future_credits /\ future_credits <= 60
        THEN [value |-> r.value < 30, rnd |-> r.rnd]
        ELSE [value |-> r.value < 60, rnd |-> r.rnd]

should_server_cheat(current_credits, potential_win_credits, rnd) ==
    LET future_credits == current_credits + potential_win_credits
    IN  IF future_credits < 40
        THEN [value |-> FALSE, rnd |-> rnd]
        ELSE IF 40 <= future_credits /\ future_credits <= 60
        THEN LET r == random_random(rnd)
             IN  [value |-> r.value < 30, rnd |-> r.rnd]
        ELSE LET r == random_random(rnd)
             IN  [value |-> r.value < 60, rnd |-> r.rnd]

(***************************************************************************)
(* GameSession (models.py).  A row, and an in-memory instance of it, is    *)
(* [credits, account_credits, is_active]; the session id is the key.       *)
(* The methods work on the in-memory instance; save() is the write of the  *)
(* whole instance to its row, done by the action that calls the method.    *)
(***************************************************************************)
INITIAL_CREDITS == 10
INITIAL_ACCOUNT_CREDITS == 0

NewSession ==
    [credits |-> INITIAL_CREDITS,
     account_credits |-> INITIAL_ACCOUNT_CREDITS,
     is_active |-> TRUE]

CanPlayAtZero(s) == s.credits >= 0

CanPlayIgnoresBalance(s) == s.is_active

can_play(s) == s.credits >= 1

DeductCreditNotSaved(s) ==
    IF s.credits >= 1
    THEN [session |-> [s EXCEPT !.credits = @ - 1], saved |-> FALSE, result |-> TRUE]
    ELSE [session |-> s, saved |-> FALSE, result |-> FALSE]

deduct_credit(s) ==
    IF can_play(s)
    THEN [session |-> [s EXCEPT !.credits = @ - 1], saved |-> TRUE, result |-> TRUE]
    ELSE [session |-> s, saved |-> FALSE, result |-> FALSE]

AddCreditsAssigns(s, amount) == [s EXCEPT !.credits = amount]

add_credits(s, amount) == [s EXCEPT !.credits = @ + amount]

CashOutKeepsCredits(s) ==
    [s EXCEPT !.account_credits = @ + s.credits,
              !.is_active = FALSE]

GameSession_cash_out(s) ==
    [s EXCEPT !.account_credits = @ + s.credits,
              !.credits = 0,
              !.is_active = FALSE]

SaveEveryRow(table, sid, s) == [t \in DOMAIN table |-> s]

\* Model.save(): UPDATE of every column of the instance's row
save(table, sid, s) == [table EXCEPT ![sid] = s]

FoundAnyState(sid) == sid \in DOMAIN db

\* get_object_or_404(GameSession, session_id=sid, is_active=True)
FoundActive(sid) == sid \in DOMAIN db /\ db[sid].is_active

FoundOnlyActive(sid) == sid \in DOMAIN db /\ db[sid].is_active

\* get_object_or_404(GameSession, session_id=sid)
Found(sid) == sid \in DOMAIN db

(***************************************************************************)
(* Responses.  op is the view that answered; status is the HTTP status;    *)
(* error is the 'error' text of the JSON body ("" when there is none);     *)
(* data holds the other fields of the body.                                *)
(***************************************************************************)
HTTP_OK == 200
HTTP_BAD_REQUEST == 400
HTTP_SERVER_ERROR == 500

MSG_NOT_ENOUGH == "Not enough credits"
MSG_NO_MATCH == "No GameSession matches the given query."
MSG_STORAGE == "storage fault"

NoData == [none |-> TRUE]
NoResp == [op |-> "none", status |-> 0, error |-> "", data |-> NoData]

Response(op, status, error, data) ==
    [op |-> op, status |-> status, error |-> error, data |-> data]

\* except Exception as e: return JsonResponse({'error': str(e)}, status=500)
ExceptionResponse(op, message) ==
    Response(op, HTTP_SERVER_ERROR, message, NoData)

(***************************************************************************)
(* Handler locals.                                                         *)
(***************************************************************************)
NoSession == [credits |-> 0, account_credits |-> 0, is_active |-> FALSE]

NoLoc ==
    [sid |-> 0, session |-> NoSession, credits_before |-> 0, symbols |-> <<>>,
     first_roll |-> <<>>, is_winning |-> FALSE, credits_won |-> 0,
     was_rerolled |-> FALSE]

Busy(w) == pc[w] # "idle"

\* A request goes to the first idle worker; overlaps counts the requests
\* that started while another one was in flight.
Dispatch(w) ==
    /\ pc[w] = "idle"
    /\ \A v \in Workers : v < w => Busy(v)
    /\ overlaps' = IF \E v \in Workers : Busy(v) THEN overlaps + 1 ELSE overlaps

\* A database operation succeeds or raises; faults counts the raises.
StorageOutcome(ok) == faults' = IF ok THEN faults ELSE faults + 1

Finish(w, r) ==
    /\ pc' = [pc EXCEPT ![w] = "idle"]
    /\ loc' = [loc EXCEPT ![w] = NoLoc]
    /\ resp' = r

(***************************************************************************)
(* The draws of the random source the model lets a play request see: one   *)
(* losing and three winning first rolls (the lowest reward, the highest,   *)
(* and the one that takes a new session to 39 credits, just under the      *)
(* cheat's first band), a value of random.random() below both thresholds,  *)
(* one between them and one above both, and a re-roll that comes out equal *)
(* (and is repaired) and one that does not.                                *)
(***************************************************************************)
RollDraws == {<<0, 1, 0>>, <<0, 0, 0>>, <<2, 2, 2>>, <<3, 3, 3>>}
UnitDraws == {10, 50, 80}
RerollDraws == {<<1, 1, 1, 0>>, <<0, 2, 1, 0>>}

Streams == {a \o <<r>> \o l : a \in RollDraws, r \in UnitDraws, l \in RerollDraws}

RollOutcomeKeepsReward(credits, rnd) ==
    LET g == generate_roll(rnd)
        first_win == check_winning_combination(g.symbols)
        reward == SYMBOLS[g.symbols[1]].reward
        cheat == should_server_cheat(credits, reward, g.rnd)
    IN  IF first_win /\ cheat.value
        THEN [symbols |-> generate_losing_roll(cheat.rnd).symbols,
              first_roll |-> g.symbols,
              is_winning |-> FALSE, credits_won |-> reward,
              was_rerolled |-> TRUE, first_win |-> TRUE]
        ELSE [symbols |-> g.symbols,
              first_roll |-> g.symbols,
              is_winning |-> first_win,
              credits_won |-> IF first_win THEN reward ELSE 0,
              was_rerolled |-> FALSE, first_win |-> first_win]

RollOutcomeBeforeDeduction(credits, rnd) ==
    LET g == generate_roll(rnd)
        first_win == check_winning_combination(g.symbols)
        reward == SYMBOLS[g.symbols[1]].reward
        cheat == should_server_cheat(credits + 1, reward, g.rnd)
    IN  IF first_win /\ cheat.value
        THEN [symbols |-> generate_losing_roll(cheat.rnd).symbols,
              first_roll |-> g.symbols,
              is_winning |-> FALSE, credits_won |-> 0,
              was_rerolled |-> TRUE, first_win |-> TRUE]
        ELSE [symbols |-> g.symbols,
              first_roll |-> g.symbols,
              is_winning |-> first_win,
              credits_won |-> IF first_win THEN reward ELSE 0,
              was_rerolled |-> FALSE, first_win |-> first_win]

(***************************************************************************)
(* roll_slots, lines 56-72: the roll, its evaluation and the cheat, given  *)
(* the in-memory credits after the deduction.                              *)
(***************************************************************************)
roll_outcome(credits, rnd) ==
    LET g == generate_roll(rnd)
        first_win == check_winning_combination(g.symbols)
        reward == SYMBOLS[g.symbols[1]].reward
        cheat == should_server_cheat(credits, reward, g.rnd)
    IN  IF first_win /\ cheat.value
        THEN [symbols |-> generate_losing_roll(cheat.rnd).symbols,
              first_roll |-> g.symbols,
              is_winning |-> FALSE, credits_won |-> 0,
              was_rerolled |-> TRUE, first_win |-> TRUE]
        ELSE [symbols |-> g.symbols,
              first_roll |-> g.symbols,
              is_winning |-> first_win,
              credits_won |-> IF first_win THEN reward ELSE 0,
              was_rerolled |-> FALSE, first_win |-> first_win]

(***************************************************************************)
(* create_session                                                          *)
(***************************************************************************)
create_session(w) ==
    /\ Dispatch(w)
    /\ \E sid \in SessionIds, ok \in BOOLEAN :
        /\ sid \notin DOMAIN db
        /\ \A t \in SessionIds : t < sid => t \in DOMAIN db
        /\ StorageOutcome(ok)
        /\ IF ok
           THEN /\ db' = [t \in DOMAIN db \cup {sid} |->
                            IF t = sid THEN NewSession ELSE db[t]]
                /\ rolls' = [t \in DOMAIN db \cup {sid} |->
                            IF t = sid THEN <<>> ELSE rolls[t]]
                /\ Finish(w, Response("create_session", HTTP_OK, "",
                            [session_id |-> sid,
                             credits |-> NewSession.credits,
                             account_credits |-> NewSession.account_credits]))
           ELSE /\ UNCHANGED <<db, rolls>>
                /\ Finish(w, ExceptionResponse("create_session", MSG_STORAGE))
    /\ UNCHANGED <<wins, probe>>

(***************************************************************************)
(* roll_slots                                                              *)
(***************************************************************************)
\* lines 43-49: the lookup of the active session and the can_play check
roll_slots_lookup(w, sid) ==
    /\ Dispatch(w)
    /\ \E ok \in BOOLEAN :
        /\ StorageOutcome(ok)
        /\ IF ~ok
           THEN Finish(w, ExceptionResponse("roll_slots", MSG_STORAGE))
           ELSE IF ~FoundActive(sid)
           THEN Finish(w, ExceptionResponse("roll_slots", MSG_NO_MATCH))
           ELSE IF ~can_play(db[sid])
           THEN Finish(w, Response("roll_slots", HTTP_BAD_REQUEST,
                                   MSG_NOT_ENOUGH, NoData))
           ELSE /\ pc' = [pc EXCEPT ![w] = "roll_deduct"]
                /\ loc' = [loc EXCEPT ![w] = [NoLoc EXCEPT !.sid = sid,
                                                           !.session = db[sid]]]
                /\ resp' = NoResp
    /\ UNCHANGED <<db, rolls, wins, probe>>

\* lines 52-72: the deduction (a save) and the roll
roll_slots_deduct(w) ==
    /\ pc[w] = "roll_deduct"
    /\ \E ok \in BOOLEAN, d \in {deduct_credit(loc[w].session)} :
        \E o \in {roll_outcome(d.session.credits, rnd) : rnd \in Streams} :
        LET l == loc[w]
        IN  /\ StorageOutcome(ok \/ ~d.saved)
            /\ IF ~ok /\ d.saved
               THEN /\ Finish(w, ExceptionResponse("roll_slots", MSG_STORAGE))
                    /\ UNCHANGED <<db, wins>>
               ELSE /\ db' = IF d.saved THEN save(db, l.sid, d.session) ELSE db
                    /\ wins' = IF o.first_win THEN wins + 1 ELSE wins
                    /\ pc' = [pc EXCEPT ![w] =
                                IF o.is_winning THEN "roll_add" ELSE "roll_record"]
                    /\ loc' = [loc EXCEPT ![w] =
                                [sid |-> l.sid, session |-> d.session,
                                 credits_before |-> l.session.credits,
                                 symbols |-> o.symbols,
                                 first_roll |-> o.first_roll,
                                 is_winning |-> o.is_winning,
                                 credits_won |-> o.credits_won,
                                 was_rerolled |-> o.was_rerolled]]
                    /\ resp' = NoResp
    /\ UNCHANGED <<rolls, overlaps, probe>>

\* lines 75-76: the win is added (a save)
roll_slots_add(w) ==
    /\ pc[w] = "roll_add"
    /\ \E ok \in BOOLEAN :
        LET l == loc[w]
            s == add_credits(l.session, l.credits_won)
        IN  /\ StorageOutcome(ok)
            /\ IF ~ok
               THEN /\ Finish(w, ExceptionResponse("roll_slots", MSG_STORAGE))
                    /\ db' = db
               ELSE /\ db' = save(db, l.sid, s)
                    /\ pc' = [pc EXCEPT ![w] = "roll_record"]
                    /\ loc' = [loc EXCEPT ![w].session = s]
                    /\ resp' = NoResp
    /\ UNCHANGED <<rolls, wins, overlaps, probe>>

\* lines 79-96: the GameRoll row and the response
roll_slots_record(w) ==
    /\ pc[w] = "roll_record"
    /\ \E ok \in BOOLEAN :
        LET l == loc[w]
        IN  /\ StorageOutcome(ok)
            /\ IF ~ok
               THEN /\ Finish(w, ExceptionResponse("roll_slots", MSG_STORAGE))
                    /\ rolls' = rolls
               ELSE /\ rolls' = [rolls EXCEPT ![l.sid] = Append(@,
                            [session |-> l.sid,
                             symbols |-> l.symbols,
                             credits_before |-> l.credits_before,
                             credits_after |-> l.session.credits,
                             credits_won |-> l.credits_won,
                             was_winning_roll |-> l.is_winning,
                             was_rerolled |-> l.was_rerolled])]
                    /\ Finish(w, Response("roll_slots", HTTP_OK, "",
                            [symbols |-> l.symbols,
                             symbols_display |->
                                [i \in 1..Len(l.symbols) |-> SYMBOLS[l.symbols[i]].letter],
                             is_winning |-> l.is_winning,
                             credits_won |-> l.credits_won,
                             total_credits |-> l.session.credits,
                             was_rerolled |-> l.was_rerolled]))
    /\ UNCHANGED <<db, wins, overlaps, probe>>

(***************************************************************************)
(* cash_out                                                                *)
(***************************************************************************)
\* lines 107-110: the lookup of the active session
cash_out_lookup(w, sid) ==
    /\ Dispatch(w)
    /\ \E ok \in BOOLEAN :
        /\ StorageOutcome(ok)
        /\ IF ~ok
           THEN Finish(w, ExceptionResponse("cash_out", MSG_STORAGE))
           ELSE IF ~FoundActive(sid)
           THEN Finish(w, ExceptionResponse("cash_out", MSG_NO_MATCH))
           ELSE /\ pc' = [pc EXCEPT ![w] = "cash_out_save"]
                /\ loc' = [loc EXCEPT ![w] = [NoLoc EXCEPT !.sid = sid,
                                                           !.session = db[sid]]]
                /\ resp' = NoResp
    /\ UNCHANGED <<db, rolls, wins, probe>>

\* lines 112-118: session.cash_out() (a save) and the response
cash_out_save(w) ==
    /\ pc[w] = "cash_out_save"
    /\ \E ok \in BOOLEAN :
        LET l == loc[w]
            s == GameSession_cash_out(l.session)
        IN  /\ StorageOutcome(ok)
            /\ IF ~ok
               THEN /\ Finish(w, ExceptionResponse("cash_out", MSG_STORAGE))
                    /\ db' = db
               ELSE /\ db' = save(db, l.sid, s)
                    /\ Finish(w, Response("cash_out", HTTP_OK, "",
                            [success |-> TRUE,
                             total_account_credits |-> s.account_credits]))
    /\ UNCHANGED <<rolls, wins, overlaps, probe>>

(***************************************************************************)
(* get_session_status                                                      *)
(***************************************************************************)
get_session_status(w, sid) ==
    /\ Dispatch(w)
    /\ \E ok \in BOOLEAN :
        /\ StorageOutcome(ok)
        /\ IF ~ok
           THEN Finish(w, ExceptionResponse("get_session_status", MSG_STORAGE))
           ELSE IF ~Found(sid)
           THEN Finish(w, ExceptionResponse("get_session_status", MSG_NO_MATCH))
           ELSE Finish(w, Response("get_session_status", HTTP_OK, "",
                            [session_id |-> sid,
                             credits |-> db[sid].credits,
                             account_credits |-> db[sid].account_credits,
                             is_active |-> db[sid].is_active,
                             can_play |-> can_play(db[sid])]))
    /\ UNCHANGED <<db, rolls, wins, probe>>

(***************************************************************************)
(* The system                                                              *)
(***************************************************************************)
NoProbe == [fn |-> "none"]

Init ==
    /\ db = [t \in {} |-> NewSession]
    /\ rolls = [t \in {} |-> <<>>]
    /\ pc = [w \in Workers |-> "idle"]
    /\ loc = [w \in Workers |-> NoLoc]
    /\ resp = NoResp
    /\ wins = 0
    /\ overlaps = 0
    /\ faults = 0
    /\ probe = NoProbe

(***************************************************************************)
(* What the model explores.  StartedRolls counts the play requests that    *)
(* got past their checks: the rows written and the handlers in flight.     *)
(***************************************************************************)
RECURSIVE SumLen(_, _)
SumLen(f, S) ==
    IF S = {} THEN 0
    ELSE LET t == CHOOSE x \in S : TRUE
         IN  Len(f[t]) + SumLen(f, S \ {t})

StartedRolls ==
    SumLen(rolls, DOMAIN rolls)
    + Cardinality({w \in Workers : pc[w] \in {"roll_deduct", "roll_add", "roll_record"}})

\* The events that make a run branch: a winning first roll, a request that
\* overlaps another, a storage fault, a session after the first.
Events == wins + overlaps + faults + (Cardinality(DOMAIN db) - 1)

\* Few play requests and few events, and at most so many of both together.
ShallowWithin ==
    /\ StartedRolls <= MaxRolls
    /\ Events <= MaxEvents
    /\ StartedRolls + Events <= MaxRollsAndEvents

\* One session, the storage never failing.
OneSession ==
    /\ StartedRolls <= DeepMaxRolls
    /\ DOMAIN db \subseteq {Min(SessionIds)}
    /\ faults = 0

\* One session played down to its last credit without a win.
DeepWithin == OneSession /\ wins = 0 /\ overlaps <= DeepMaxEvents

Within == ShallowWithin \/ DeepWithin

\* One client: its requests are served one at a time.
SeqWithin == OneSession /\ overlaps = 0 /\ wins <= DeepMaxEvents

Next ==
    \E w \in Workers :
        \/ create_session(w) /\ Within'
        \/ \E sid \in SessionIds : roll_slots_lookup(w, sid) /\ Within'
        \/ roll_slots_deduct(w) /\ Within'
        \/ roll_slots_add(w) /\ Within'
        \/ roll_slots_record(w) /\ Within'
        \/ \E sid \in SessionIds : cash_out_lookup(w, sid) /\ Within'
        \/ cash_out_save(w) /\ Within'
        \/ \E sid \in SessionIds : get_session_status(w, sid) /\ Within'

Spec == Init /\ [][Next]_vars

SeqNext ==
    \E w \in Workers :
        \/ create_session(w) /\ SeqWithin'
        \/ \E sid \in SessionIds : roll_slots_lookup(w, sid) /\ SeqWithin'
        \/ roll_slots_deduct(w) /\ SeqWithin'
        \/ roll_slots_add(w) /\ SeqWithin'
        \/ roll_slots_record(w) /\ SeqWithin'
        \/ \E sid \in SessionIds : cash_out_lookup(w, sid) /\ SeqWithin'
        \/ cash_out_save(w) /\ SeqWithin'
        \/ \E sid \in SessionIds : get_session_status(w, sid) /\ SeqWithin'

SeqSpec == Init /\ [][SeqNext]_vars

(***************************************************************************)
(* The pure helpers on their own: the inputs are drawn at the start, one   *)
(* step applies the helper and keeps what it returned.                     *)
(***************************************************************************)
ProbeCredits == 0..MaxProbeCredits
ProbeWins == {0, 5} \cup {SYMBOLS[n].reward : n \in DOMAIN SYMBOLS}
ProbeUnits == {0, 20, 29, 30, 40, 50, 59, 60, 70, 99}

ProbeInputs ==
    {[fn |-> "should_server_cheat", done |-> FALSE,
      current_credits |-> c, potential_win_credits |-> p,
      rnd |-> <<r, 7>>] : c \in ProbeCredits, p \in ProbeWins, r \in ProbeUnits}
    \cup
    {[fn |-> "generate_losing_roll", done |-> FALSE, rnd |-> rnd] :
        rnd \in [1..4 -> 0..3]}
    \cup
    {[fn |-> "check_winning_combination", done |-> FALSE, symbols |-> sy] :
        sy \in [1..3 -> {SYMBOL_NAMES[i] : i \in 1..Len(SYMBOL_NAMES)}]}

PureInit ==
    /\ db = [t \in {} |-> NewSession]
    /\ rolls = [t \in {} |-> <<>>]
    /\ pc = [w \in Workers |-> "idle"]
    /\ loc = [w \in Workers |-> NoLoc]
    /\ resp = NoResp
    /\ wins = 0
    /\ overlaps = 0
    /\ faults = 0
    /\ probe \in ProbeInputs

apply_should_server_cheat ==
    /\ probe.fn = "should_server_cheat" /\ ~probe.done
    /\ \E out \in {should_server_cheat(probe.current_credits,
                                       probe.potential_win_credits, probe.rnd)} :
        probe' = [fn |-> probe.fn, done |-> TRUE,
                  current_credits |-> probe.current_credits,
                  potential_win_credits |-> probe.potential_win_credits,
                  rnd |-> probe.rnd, value |-> out.value, rest |-> out.rnd]
    /\ UNCHANGED <<db, rolls, pc, loc, resp, wins, overlaps, faults>>

apply_generate_losing_roll ==
    /\ probe.fn = "generate_losing_roll" /\ ~probe.done
    /\ \E out \in {generate_losing_roll(probe.rnd)} :
        probe' = [fn |-> probe.fn, done |-> TRUE, rnd |-> probe.rnd,
                  symbols |-> out.symbols, rest |-> out.rnd,
                  winning |-> check_winning_combination(out.symbols)]
    /\ UNCHANGED <<db, rolls, pc, loc, resp, wins, overlaps, faults>>

apply_check_winning_combination ==
    /\ probe.fn = "check_winning_combination" /\ ~probe.done
    /\ probe' = [fn |-> probe.fn, done |-> TRUE, symbols |-> probe.symbols,
                 value |-> check_winning_combination(probe.symbols)]
    /\ UNCHANGED <<db, rolls, pc, loc, resp, wins, overlaps, faults>>

PureNext ==
    \/ apply_should_server_cheat
    \/ apply_generate_losing_roll
    \/ apply_check_winning_combination

PureSpec == PureInit /\ [][PureNext]_vars

(***************************************************************************)
(* Properties                                                              *)
(***************************************************************************)
NoFault == resp'.error # MSG_STORAGE

\* C1: in every reachable state every session has credits >= 0 and
\* account_credits >= 0.
C1_CreditsNonNegative ==
    \A sid \in DOMAIN db :
        db[sid].credits >= 0 /\ db[sid].account_credits >= 0

\* a session played down to its last credit and still active
C1_Witness ==
    \E sid \in DOMAIN db :
        /\ db[sid].is_active
        /\ db[sid].credits = 0
        /\ Len(rolls[sid]) = INITIAL_CREDITS

\* C2: once a session's is_active is false, its credits are 0 and stay 0, and
\* nothing changes the session any more.
C2_ClosedIsFinal ==
    [][\A sid \in DOMAIN db :
          ~db[sid].is_active => db[sid].credits = 0 /\ db'[sid] = db[sid]]_vars

\* C3: every GameRoll row has credits_after = credits_before - 1 + credits_won.
C3_RollConservation ==
    \A sid \in DOMAIN rolls : \A i \in 1..Len(rolls[sid]) :
        LET r == rolls[sid][i]
        IN  r.credits_after = r.credits_before - 1 + r.credits_won

\* a row of a roll that won
C3_Witness ==
    \E sid \in DOMAIN rolls : \E i \in 1..Len(rolls[sid]) :
        rolls[sid][i].was_winning_roll /\ rolls[sid][i].credits_won > 0

\* C4: no update to credits is lost.  A session whose first two play requests
\* have completed, with no request in flight, nothing cashed out and no
\* storage fault, has credits = 10 - 2 + the credits won by the two rolls,
\* also when requests overlapped.
C4_NoLostUpdate ==
    \A sid \in DOMAIN db :
        ( /\ \A w \in Workers : ~Busy(w)
          /\ faults = 0
          /\ db[sid].is_active
          /\ db[sid].account_credits = 0
          /\ Len(rolls[sid]) = 2 )
        => db[sid].credits = INITIAL_CREDITS - 2
                             + rolls[sid][1].credits_won + rolls[sid][2].credits_won

\* C5: a play request that finds its session active with credits 0 is answered
\* 400 'Not enough credits' at once; no row is written and the session is
\* left as it was.
C5_InsufficientCredits ==
    [][\A w \in Workers, sid \in SessionIds :
          ( /\ FoundActive(sid)
            /\ db[sid].credits = 0
            /\ roll_slots_lookup(w, sid)
            /\ NoFault )
          => /\ resp' = Response("roll_slots", HTTP_BAD_REQUEST, MSG_NOT_ENOUGH, NoData)
             /\ pc'[w] = "idle"
             /\ db' = db
             /\ rolls' = rolls]_vars

\* the refusal, sent for a session that is active with no credits left
C5_Witness ==
    /\ resp.op = "roll_slots"
    /\ resp.status = HTTP_BAD_REQUEST
    /\ resp.error = MSG_NOT_ENOUGH
    /\ \E sid \in DOMAIN db :
        db[sid].is_active /\ db[sid].credits = 0 /\ Len(rolls[sid]) = INITIAL_CREDITS

\* C6: a cash-out of a session it read with credits c and account_credits a
\* answers a + c and leaves the row with account_credits = a + c, credits = 0
\* and is_active = FALSE; a status request answers the values of the row.
C6_CashOut ==
    [][/\ \A w \in Workers :
            (pc[w] = "cash_out_save" /\ cash_out_save(w) /\ NoFault)
            => LET a == loc[w].session.account_credits
                   c == loc[w].session.credits
               IN  /\ resp' = Response("cash_out", HTTP_OK, "",
                                [success |-> TRUE, total_account_credits |-> a + c])
                   /\ db'[loc[w].sid] = [credits |-> 0, account_credits |-> a + c,
                                         is_active |-> FALSE]
       /\ \A w \in Workers, sid \in SessionIds :
            ( /\ Found(sid)
              /\ resp'.op = "get_session_status"
              /\ get_session_status(w, sid)
              /\ NoFault )
            => /\ resp' = Response("get_session_status", HTTP_OK, "",
                            [session_id |-> sid,
                             credits |-> db[sid].credits,
                             account_credits |-> db[sid].account_credits,
                             is_active |-> db[sid].is_active,
                             can_play |-> db[sid].credits >= 1])
               /\ db' = db]_vars

\* the status of a session that was played and then cashed out
C6_Witness ==
    /\ resp.op = "get_session_status"
    /\ resp.status = HTTP_OK
    /\ ~resp.data.is_active
    /\ resp.data.credits = 0
    /\ resp.data.account_credits > 0
    /\ resp.data.account_credits # INITIAL_CREDITS
    /\ db[resp.data.session_id].account_credits = resp.data.account_credits

\* C7: a cash-out request on a closed session fails with the not-found error
\* and leaves the session as it was.
C7_SecondCashOut ==
    [][\A w \in Workers, sid \in SessionIds :
          ( /\ Found(sid)
            /\ ~db[sid].is_active
            /\ cash_out_lookup(w, sid)
            /\ NoFault )
          => /\ resp'.op = "cash_out"
             /\ resp'.status # HTTP_OK
             /\ resp'.error = MSG_NO_MATCH
             /\ pc'[w] = "idle"
             /\ db' = db]_vars

\* a cash-out refused when every session there can be is closed
C7_Witness ==
    /\ resp.op = "cash_out"
    /\ resp.error = MSG_NO_MATCH
    /\ \A sid \in SessionIds : sid \in DOMAIN db /\ ~db[sid].is_active
    /\ \E sid \in DOMAIN db : db[sid].account_credits > 0

\* C8: should_server_cheat(c, p) with draw r and f = c + p is FALSE when
\* f < 40, (r < 0.3) when 40 <= f <= 60 and (r < 0.6) when f > 60.
C8_ShouldSuppressWin ==
    (probe.fn = "should_server_cheat" /\ probe.done)
    => LET f == probe.current_credits + probe.potential_win_credits
           r == probe.rnd[1]
       IN  /\ f < 40 => probe.value = FALSE
           /\ (40 <= f /\ f <= 60) => probe.value = (r < 30)
           /\ f > 60 => probe.value = (r < 60)

\* the upper end of the middle band, with a draw just under its threshold
C8_Witness ==
    /\ probe.fn = "should_server_cheat" /\ probe.done
    /\ probe.current_credits + probe.potential_win_credits = 60
    /\ probe.rnd[1] = 29
    /\ probe.value = TRUE

\* C9: check_winning_combination is true exactly when the 3 symbols are equal,
\* and generate_losing_roll returns 3 catalog symbols that do not win,
\* whatever the random source hands out.
C9_WinningAndLosing ==
    /\ (probe.fn = "check_winning_combination" /\ probe.done)
       => probe.value = (probe.symbols[1] = probe.symbols[2]
                         /\ probe.symbols[2] = probe.symbols[3])
    /\ (probe.fn = "generate_losing_roll" /\ probe.done)
       => /\ Len(probe.symbols) = 3
          /\ \A i \in 1..3 : probe.symbols[i] \in DOMAIN SYMBOLS
          /\ ~probe.winning
          /\ ~(probe.symbols[1] = probe.symbols[2] /\ probe.symbols[2] = probe.symbols[3])

\* a re-roll whose three draws came out equal and was repaired
C9_Witness ==
    /\ probe.fn = "generate_losing_roll" /\ probe.done
    /\ probe.rnd[1] = probe.rnd[2] /\ probe.rnd[2] = probe.rnd[3]
    /\ probe.symbols[1] = probe.symbols[2]
    /\ probe.symbols[3] # probe.symbols[1]

\* C10: a play or cash-out request on an unknown or closed session is answered
\* with an outcome other than the one a storage fault gets (status 500).
C10_NotFoundIsDistinct ==
    (resp.op \in {"roll_slots", "cash_out"} /\ resp.error = MSG_NO_MATCH)
    => resp.status # HTTP_SERVER_ERROR

\* C11: a play request that fails at any step after its checks, served with
\* no other request overlapping it, leaves the session's credits as they were
\* when the request read them and writes no GameRoll row.
C11_FailedRollIsAtomic ==
    [][\A w \in Workers :
          ( /\ overlaps = 0
            /\ pc[w] \in {"roll_deduct", "roll_add", "roll_record"}
            /\ pc'[w] = "idle"
            /\ resp'.status # HTTP_OK )
          => /\ db'[loc[w].sid].credits =
                    IF pc[w] = "roll_deduct" THEN loc[w].session.credits
                    ELSE loc[w].credits_before
             /\ rolls' = rolls]_vars

\* C12: no step of any execution lowers a session's account_credits.
C12_AccountCreditsMonotonic ==
    [][\A sid \in DOMAIN db :
          db'[sid].account_credits >= db[sid].account_credits]_vars

\* C13: a status request changes no session and no GameRoll row; for a session
\* that exists, active or closed, it answers 200 with the row's credits,
\* account_credits and is_active and can_play = (credits >= 1); for an
\* identifier no session has it fails with the not-found error.
C13_GetStatus ==
    [][\A w \in Workers, sid \in SessionIds :
          (resp'.op = "get_session_status" /\ get_session_status(w, sid))
          => /\ db' = db
             /\ rolls' = rolls
             /\ pc'[w] = "idle"
             /\ NoFault =>
                  IF sid \in DOMAIN db
                  THEN resp' = Response("get_session_status", HTTP_OK, "",
                                 [session_id |-> sid,
                                  credits |-> db[sid].credits,
                                  account_credits |-> db[sid].account_credits,
                                  is_active |-> db[sid].is_active,
                                  can_play |-> db[sid].credits >= 1])
                  ELSE /\ resp'.op = "get_session_status"
                       /\ resp'.status # HTTP_OK
                       /\ resp'.error = MSG_NO_MATCH]_vars

\* the status of a session that is active and has no credit left to play
C13_Witness ==
    /\ resp.op = "get_session_status"
    /\ resp.status = HTTP_OK
    /\ resp.data.is_active
    /\ ~resp.data.can_play
    /\ resp.data.credits = 0

\* C14: no step takes a session from closed back to active, also when a
\* cash-out and a play request on the session interleave.
C14_NoTransitionLeavesClosed ==
    [][\A sid \in DOMAIN db : ~db[sid].is_active => ~db'[sid].is_active]_vars

\* C15: the cheat is asked with the credits after the deduction: a play
\* request whose first roll wins reward p on a session it read with credits c
\* keeps the win (not re-rolled, credits_won = p) whenever c - 1 + p < 40; and
\* the row of a roll of three cherries on credits 10 has credits_won = 10,
\* credits_after = 19, was_winning_roll and not was_rerolled.
C15_CheatSeesCreditsAfterDeduction ==
    /\ \A w \in Workers :
         pc[w] \in {"roll_add", "roll_record"}
         => LET l == loc[w]
                p == SYMBOLS[l.first_roll[1]].reward
            IN  ( /\ check_winning_combination(l.first_roll)
                  /\ l.credits_before - 1 + p < 40 )
                => /\ ~l.was_rerolled
                   /\ l.is_winning
                   /\ l.symbols = l.first_roll
                   /\ l.credits_won = p
    /\ \A sid \in DOMAIN rolls : \A i \in 1..Len(rolls[sid]) :
         LET r == rolls[sid][i]
         IN  (r.credits_before = INITIAL_CREDITS
              /\ r.symbols = <<"cherry", "cherry", "cherry">>)
             => /\ r.credits_won = 10
                /\ r.credits_after = 19
                /\ r.was_winning_roll
                /\ ~r.was_rerolled

\* the first roll of a new session came out three cherries and was kept
C15_Witness ==
    /\ resp.op = "roll_slots"
    /\ resp.status = HTTP_OK
    /\ resp.data.symbols = <<"cherry", "cherry", "cherry">>
    /\ resp.data.is_winning
    /\ resp.data.credits_won = 10
    /\ resp.data.total_credits = 19
    /\ ~resp.data.was_rerolled
    /\ \E sid \in DOMAIN rolls :
         /\ Len(rolls[sid]) = 1
         /\ rolls[sid][1].credits_before = INITIAL_CREDITS
         /\ rolls[sid][1].credits_after = 19

\* C16: every GameRoll row has was_winning_roll true exactly when its three
\* symbols are equal, credits_won = the reward of that symbol when it is and
\* 0 when it is not, and a re-rolled row neither wins nor pays; a play
\* request is marked re-rolled exactly when its first roll won and was
\* replaced.
C16_RollRecordConsistent ==
    /\ \A sid \in DOMAIN rolls : \A i \in 1..Len(rolls[sid]) :
         LET r == rolls[sid][i]
             equal == r.symbols[1] = r.symbols[2] /\ r.symbols[2] = r.symbols[3]
         IN  /\ Len(r.symbols) = 3
             /\ r.was_winning_roll = equal
             /\ r.credits_won = IF equal THEN SYMBOLS[r.symbols[1]].reward ELSE 0
             /\ equal => r.credits_won \in {10, 20, 30, 40}
             /\ r.was_rerolled => ~r.was_winning_roll /\ r.credits_won = 0
    /\ \A w \in Workers :
         pc[w] \in {"roll_add", "roll_record"}
         => LET l == loc[w]
                f == l.first_roll
                first_win == f[1] = f[2] /\ f[2] = f[3]
            IN  /\ l.was_rerolled = (first_win /\ l.symbols # f)
                /\ l.was_rerolled => ~l.is_winning /\ l.credits_won = 0
                /\ ~l.was_rerolled => l.symbols = f /\ l.is_winning = first_win

\* the row of a roll that won first and was re-rolled
C16_Witness ==
    \E sid \in DOMAIN rolls : \E i \in 1..Len(rolls[sid]) :
        /\ rolls[sid][i].was_rerolled
        /\ ~rolls[sid][i].was_winning_roll
        /\ rolls[sid][i].credits_won = 0
        /\ rolls[sid][i].credits_after = rolls[sid][i].credits_before - 1

\* C17: a play request that succeeds writes one deduction of 1, then at most
\* one addition (of the credits won, only when the roll wins), then exactly
\* one GameRoll row, to its own session; and no step changes or removes a
\* row written before: the rows of a session only grow at the end.
C17_OneDeductionOneRow ==
    [][/\ \A sid \in DOMAIN rolls :
            /\ sid \in DOMAIN rolls'
            /\ Len(rolls'[sid]) \in {Len(rolls[sid]), Len(rolls[sid]) + 1}
            /\ SubSeq(rolls'[sid], 1, Len(rolls[sid])) = rolls[sid]
       /\ \A w \in Workers :
            LET l == loc[w]
            IN  /\ (pc[w] = "roll_deduct" /\ pc'[w] \in {"roll_add", "roll_record"})
                   => /\ db' = [db EXCEPT ![l.sid].credits = l.session.credits - 1,
                                          ![l.sid].account_credits = l.session.account_credits,
                                          ![l.sid].is_active = l.session.is_active]
                      /\ pc'[w] = "roll_add" <=> loc'[w].credits_won > 0
                      /\ rolls' = rolls
                /\ (pc[w] = "roll_add" /\ pc'[w] # "roll_add")
                   => /\ rolls' = rolls
                      /\ pc'[w] = "idle" => db' = db
                      /\ pc'[w] # "idle" =>
                           /\ pc'[w] = "roll_record"
                           /\ db'[l.sid].credits = l.session.credits + l.credits_won
                /\ (pc[w] = "roll_record" /\ pc'[w] # "roll_record")
                   => /\ db' = db
                      /\ pc'[w] = "idle"
                      /\ IF resp'.status = HTTP_OK
                         THEN /\ Len(rolls'[l.sid]) = Len(rolls[l.sid]) + 1
                              /\ \A sid \in DOMAIN rolls \ {l.sid} :
                                   rolls'[sid] = rolls[sid]
                              /\ LET r == rolls'[l.sid][Len(rolls'[l.sid])]
                                 IN  /\ r.session = l.sid
                                     /\ r.credits_after =
                                          r.credits_before - 1 + r.credits_won
                         ELSE rolls' = rolls]_vars

\* a second play request on a session succeeded, with a win added
C17_Witness ==
    /\ resp.op = "roll_slots"
    /\ resp.status = HTTP_OK
    /\ resp.data.is_winning
    /\ \E sid \in DOMAIN rolls :
         /\ Len(rolls[sid]) = 2
         /\ rolls[sid][2].was_winning_roll
         /\ rolls[sid][2].credits_after = resp.data.total_credits
         /\ db[sid].credits = rolls[sid][2].credits_after

\* C18: one call of should_server_cheat(c, p) takes exactly one value from the
\* random source when c + p >= 40 and none when c + p < 40.
C18_DrawsConsumed ==
    (probe.fn = "should_server_cheat" /\ probe.done)
    => LET f == probe.current_credits + probe.potential_win_credits
       IN  /\ f >= 40 => probe.rest = Tail(probe.rnd)
           /\ f < 40 => probe.rest = probe.rnd

\* a call at the lower end of the first band: the draw is gone
C18_Witness ==
    /\ probe.fn = "should_server_cheat" /\ probe.done
    /\ probe.current_credits + probe.potential_win_credits = 40
    /\ Len(probe.rest) = Len(probe.rnd) - 1
    /\ probe.rest = Tail(probe.rnd)

\* C19: a step of a play or cash-out request on one session leaves the row
\* and the GameRoll rows of every other session as they were, whatever the
\* other requests in flight are.
C19_OtherSessionsUntouched ==
    [][\A w \in Workers :
          /\ (pc[w] \in {"roll_deduct", "roll_add", "roll_record", "cash_out_save"}
              /\ pc'[w] # pc[w])
             => \A t \in DOMAIN db \ {loc[w].sid} :
                   db'[t] = db[t] /\ rolls'[t] = rolls[t]
          /\ (pc[w] = "idle" /\ pc'[w] \in {"roll_deduct", "cash_out_save"})
             => db' = db /\ rolls' = rolls]_vars

\* a play request on one session ran to its end while a cash-out of another
\* session was in flight, and that session is still as it was created
C19_Witness ==
    \E w \in Workers : \E s \in DOMAIN db :
        /\ pc[w] = "cash_out_save"
        /\ s # loc[w].sid
        /\ db[loc[w].sid] = NewSession
        /\ rolls[loc[w].sid] = <<>>
        /\ Len(rolls[s]) = 1
        /\ db[s].credits = rolls[s][1].credits_after
        /\ resp.op = "roll_slots"
        /\ resp.status = HTTP_OK

RECURSIVE SumCreditsWon(_)
SumCreditsWon(rows) ==
    IF rows = <<>> THEN 0
    ELSE Head(rows).credits_won + SumCreditsWon(Tail(rows))

\* credits + account_credits = 10 - (rows of the session) + (their credits_won)
Reconciles(sid) ==
    db[sid].credits + db[sid].account_credits
        = INITIAL_CREDITS - Len(rolls[sid]) + SumCreditsWon(rolls[sid])

\* C20: whenever the requests so far were served one after another and none
\* is in flight, every session has credits + account_credits = 10 - (number
\* of its GameRoll rows) + (sum of their credits_won).
C20_LedgerReconciles ==
    (overlaps = 0 /\ \A w \in Workers : ~Busy(w))
    => \A sid \in DOMAIN db : Reconciles(sid)

====
